---- MODULE Spec2Model ----
(***************************************************************************)
(* Model of the streaming speech-to-text pipeline of lingua:               *)
(*   src/modules/stt_worker.py  STTWorker (start, stop, _audio_callback,   *)
(*                              _process_loop)                             *)
(*   src/modules/translator.py  TranslatorWrapper (googletrans only)       *)
(*   src/lingua.py              TranslatorWrapper (argos, then googletrans)*)
(*                                                                         *)
(* One STTWorker instance.  Its caller issues start() and stop() one after *)
(* the other; the worker threads the successful start() calls created and  *)
(* the audio callbacks of the started streams interleave freely with the   *)
(* caller and with each other.  Objects are named by the number of the     *)
(* call that created them: stream c and worker c belong to call c.         *)
(***************************************************************************)
EXTENDS Integers, Sequences, FiniteSets, TLC

(* ---- bounds of the model ---------------------------------------------- *)
MaxCalls == 3         \* start()/stop() calls of a lifecycle run
LifeTime == 1         \* the clock of a lifecycle run ranges over 0..LifeTime
LoopCalls == 2        \* start()/stop() calls of a single-session run
MaxQueue == 1         \* blocks waiting in the queue (the queue itself is unbounded)
MaxTime == 2          \* the clock of a single-session run ranges over 0..MaxTime
SAMPLE_RATE == 4      \* samples per second (16000 in the source, scaled)
BlockSize == 4        \* samples per audio block (1024 in the source, scaled)
buffer_seconds == 1   \* constructor parameter, in seconds
MaxTrCalls == 2       \* translate() calls of a translator run
MaxCap == 5           \* max_samples of a buffer run ranges over 0..MaxCap
MaxBlock == 3         \* a block of a buffer run holds 1..MaxBlock samples
MaxAppended == 7      \* samples appended in a buffer run
MaxIterations == 3    \* loop iterations of a buffer run
BacklogCalls == 2     \* start()/stop() calls of a backlog run
RestartCalls == 4     \* start()/stop() calls of a restart run
RestartAttempts == 1  \* attempts begun by all workers of a restart run
MaxBacklog == 3       \* blocks waiting in the queue in a backlog run

(* ---- program constants -------------------------------------------------*)
transcribe_interval == 1   \* seconds, one tick of the clock
maxsize == 0               \* queue.Queue(): a maxsize of 0 is no limit

None == "None"
Largest(S) == CHOOSE x \in S : \A y \in S : y <= x
Calls == 1..Largest({MaxCalls, LoopCalls, BacklogCalls, RestartCalls})

VARIABLES
  scenario,        \* which run this is: "lifecycle", "loop" or "translate"
  model_lang,      \* self.model_lang
  google,          \* self.translator.google
  running,         \* self._running
  audio_q,         \* self._audio_q
  stream_ref,      \* self._stream: 0 is None, c is the stream made by call c
  streams,         \* state of every sd.InputStream object made so far
  worker_thread,   \* self._worker_thread: 0 is None
  workers,         \* the threads running _process_loop, with their locals
  caller,          \* the caller's position inside start() or stop()
  nCalls,          \* calls begun so far
  signals,         \* the notifications emitted so far
  now,             \* time.monotonic()
  tr,              \* lingua.py's TranslatorWrapper and the last translate() call
  rb               \* the locals of one _process_loop fed blocks of any length

vars == <<scenario, model_lang, google, running, audio_q, stream_ref, streams,
          worker_thread, workers, caller, nCalls, signals, now, tr, rb>>

\* what the pipeline never writes after construction
fixed == <<scenario, model_lang, google, tr, rb>>

\* A lifecycle run makes up to MaxCalls calls within LifeTime ticks; a
\* single-session run makes up to LoopCalls calls within MaxTime ticks, and a
\* buffer run has the same clock.  A backlog run makes up to BacklogCalls
\* calls within LifeTime ticks and explores the queue up to MaxBacklog blocks,
\* the other runs up to MaxQueue blocks.
CallLimit ==
  IF scenario = "loop" THEN LoopCalls
  ELSE IF scenario = "backlog" THEN BacklogCalls
  ELSE IF scenario = "restart" THEN RestartCalls
  ELSE MaxCalls
QueueLimit == IF scenario = "backlog" THEN MaxBacklog ELSE MaxQueue
TimeLimit == IF scenario \in {"loop", "buffer"} THEN MaxTime ELSE LifeTime

(* ---- values ------------------------------------------------------------ *)
\* Python truthiness of a str-or-None value: `not x`
Falsy(x) == x = None \/ x = ""

\* (res.get("text") or "")
OrEmpty(x) == IF Falsy(x) THEN "" ELSE x

\* str.strip(): text made of whitespace only becomes empty
Strip(x) == IF x = " " THEN "" ELSE x

\* what model.transcribe(...)["text"] may hold
RawTexts == {None, "", " ", "szia"}
RawDirect == {None, "", " ", "hello"}
\* what gtr.translate(...).text may hold; "throws" is the call raising
Backend == {"throws", "", "forditas"}

(* ---- rolling buffer (stt_worker.py 97-98, 108-111) ---------------------- *)
max_samples == buffer_seconds * SAMPLE_RATE

\* block.astype(np.float32).reshape(-1) / 32768.0: the samples of one block,
\* each carrying the stream that captured it
block_f(block) == [i \in 1..BlockSize |-> block]

\* buffer[-n:]: the last n items; -0 is 0, so n = 0 keeps everything
SliceLast(buffer, n) ==
  IF n = 0 \/ n >= Len(buffer) THEN buffer
  ELSE SubSeq(buffer, Len(buffer) - n + 1, Len(buffer))

\* lines 109-111
AppendTrim(buffer, samples, cap) ==
  LET b == buffer \o samples
  IN IF Len(b) > cap THEN SliceLast(b, cap) ELSE b

\* the condition of line 116 without its second operand
ShouldTranscribe_elapsed_only(t, last, buffer) ==
  (t - last) >= transcribe_interval

\* the condition of line 116 with `or` in place of `and`
ShouldTranscribe_or(t, last, buffer) ==
  (t - last) >= transcribe_interval \/ 2 * Len(buffer) > SAMPLE_RATE

\* line 116: SAMPLE_RATE * 0.5 compared without rounding
ShouldTranscribe(t, last, buffer) ==
  (t - last) >= transcribe_interval /\ 2 * Len(buffer) > SAMPLE_RATE

(* ---- translator (modules/translator.py 15-26) --------------------------- *)
\* ret: the value returned; invoked: the translators called; raised: whether
\* an exception leaves the code; dest: the target language handed over
TrResult(ret, invoked, raised, dest) ==
  [ret |-> ret, invoked |-> invoked, raised |-> raised, dest |-> dest]

\* the outcome of one backend call: its text, or the exception it raises
Called(name, out, dest) ==
  IF out = "throws" THEN TrResult(None, {name}, TRUE, dest)
  ELSE TrResult(out, {name}, FALSE, dest)

\* an except clause that lets the exception through
Except_reraise(r) == r

\* `except Exception: return None` (24-26, lingua.py 108-110)
Except(r) == IF r.raised THEN [r EXCEPT !.ret = None, !.raised = FALSE] ELSE r

\* 19-23: the body of the try; src.startswith raises on a src that is no str
translate_try(g, text, src, backend) ==
  IF g
    THEN IF src = None THEN TrResult(None, {}, TRUE, None)
         ELSE Called("google", backend, IF src = "en" THEN "hu" ELSE "en")
    ELSE TrResult(None, {}, FALSE, None)

\* 15-26
translate(g, text, src, backend) ==
  IF Falsy(text) THEN TrResult(None, {}, FALSE, None)
  ELSE Except(translate_try(g, text, src, backend))

(* ---- translator of lingua.py (63-110) ------------------------------------- *)
\* 65-85: argos_ready is ARGOS_AVAILABLE with the languages read without an
\* exception and both en and hu installed; en_to_hu and hu_to_en say whether
\* get_translation returned a translation; googletrans is GOOGLETRANS_AVAILABLE
LinguaWrapper(argos_ready, e2h, h2e, googletrans) ==
  [argos |-> argos_ready,
   en_to_hu |-> argos_ready /\ e2h,
   hu_to_en |-> argos_ready /\ h2e,
   googletrans |-> googletrans,
   google |-> ~argos_ready /\ googletrans]

\* the try body of 95-107 without the elif branch of 101-105
lingua_try_no_google(t, text, src, primary, secondary) ==
  IF t.argos
    THEN IF src = None THEN TrResult(None, {}, TRUE, None)
         ELSE IF src = "en" /\ t.en_to_hu THEN Called("argos", primary, "hu")
         ELSE IF src = "hu" /\ t.hu_to_en THEN Called("argos", primary, "en")
         ELSE TrResult(None, {}, FALSE, None)
    ELSE TrResult(None, {}, FALSE, None)

\* 95-107: the body of the try
lingua_try(t, text, src, primary, secondary) ==
  IF t.argos
    THEN IF src = None THEN TrResult(None, {}, TRUE, None)
         ELSE IF src = "en" /\ t.en_to_hu THEN Called("argos", primary, "hu")
         ELSE IF src = "hu" /\ t.hu_to_en THEN Called("argos", primary, "en")
         ELSE TrResult(None, {}, FALSE, None)
    ELSE IF t.google
      THEN IF src = None THEN TrResult(None, {}, TRUE, None)
           ELSE Called("google", secondary, IF src = "en" THEN "hu" ELSE "en")
      ELSE TrResult(None, {}, FALSE, None)

\* 87-110
lingua_translate(t, text, src, primary, secondary) ==
  IF Falsy(text) THEN TrResult(None, {}, FALSE, None)
  ELSE Except(lingua_try(t, text, src, primary, secondary))

\* the fallback of line 124 left out
NeedsDirect_never(lang, translated) == FALSE

\* the fallback of line 124 taken for either language
NeedsDirect_any(lang, translated) == Falsy(translated)

\* line 124: hu only, `if not translated`
NeedsDirect(lang, translated) == lang = "hu" /\ Falsy(translated)

(* ---- notifications (stt_worker.py 25-27) --------------------------------- *)
\* by: the call (caller) or the worker that emitted it
Status(msg, by) == [sig |-> "status", msg |-> msg, by |-> by]
\* attempt: the attempt of the worker it was emitted in, 0 outside attempts
Error(msg, by, attempt) ==
  [sig |-> "error", msg |-> msg, by |-> by, attempt |-> attempt]
\* at: the emitting worker's locals at the moment of emission
NewResult(original, src, translated, by, at) ==
  [sig |-> "new_result", original |-> original, src |-> src,
   translated |-> translated, by |-> by, at |-> at]

(* ---- initial state: after STTWorker.__init__ (29-54) --------------------- *)
\* attempts, last_end, t_at, svc and model_calls record what the thread did:
\* the attempts begun, the clock when the last one ended, the attempt in which
\* `translated` was last assigned, what translate() returned in this attempt
\* and the model.transcribe calls of this attempt
NoWorker ==
  [pc |-> "none", buffer |-> <<>>, last_transcribe |-> 0,
   audio_for_model |-> <<>>, original |-> None, translated |-> None,
   attempts |-> 0, last_end |-> 0, t_at |-> 0,
   svc |-> None, model_calls |-> <<>>]

\* no translate() call made yet; w is lingua.py's wrapper
NoCall(w) ==
  [w |-> w, impl |-> None, text |-> None, src |-> None, primary |-> None,
   secondary |-> None, res |-> TrResult(None, {}, FALSE, None), n |-> 0]

\* 97-99 for a loop whose max_samples is cap.  appended counts the samples
\* appended so far, iterations the iterations made; elapsed and held are the
\* two operands line 116 compared in the last iteration.
NoBuffer(cap) ==
  [max_samples |-> cap, buffer |-> <<>>, last_transcribe |-> 0,
   audio_for_model |-> <<>>, attempts |-> 0, appended |-> 0,
   iterations |-> 0, elapsed |-> 0, held |-> 0]

InitPipeline ==
  /\ model_lang \in {"en", "hu"}
  /\ google \in BOOLEAN
  /\ running = FALSE
  /\ audio_q = <<>>
  /\ stream_ref = 0
  /\ streams = [c \in Calls |-> "none"]
  /\ worker_thread = 0
  /\ workers = [c \in Calls |-> NoWorker]
  /\ caller = "idle"
  /\ nCalls = 0
  /\ signals = {}
  /\ now = 0

Init ==
  /\ scenario = "lifecycle"
  /\ InitPipeline
  /\ tr = NoCall(LinguaWrapper(FALSE, FALSE, FALSE, FALSE))
  /\ rb = NoBuffer(max_samples)

(* ---- start() (64-83) ------------------------------------------------------ *)
\* 65-67
StartBegin ==
  /\ caller = "idle" /\ nCalls < CallLimit
  /\ nCalls' = nCalls + 1
  /\ IF running
       THEN UNCHANGED <<running, caller>>
       ELSE /\ running' = TRUE
            /\ caller' = "start_69"
  /\ UNCHANGED <<fixed, audio_q, stream_ref, streams,
                 worker_thread, workers, signals, now>>

\* the except branch of start() without line 78
StartFailed_keeps_running ==
  /\ signals' = signals \cup {Error("Audio input stream error", nCalls, 0)}
  /\ running' = running
  /\ caller' = "idle"

\* 76-79: the except branch of start()
StartFailed ==
  /\ signals' = signals \cup {Error("Audio input stream error", nCalls, 0)}
  /\ running' = FALSE
  /\ caller' = "idle"

\* 69-74: sd.InputStream(...) returns a stream or raises
StartConstruct ==
  /\ caller = "start_69"
  /\ \E ok \in BOOLEAN :
       IF ok
         THEN /\ streams' = [streams EXCEPT ![nCalls] = "open"]
              /\ stream_ref' = nCalls
              /\ caller' = "start_75"
              /\ UNCHANGED <<running, signals>>
         ELSE /\ StartFailed
              /\ UNCHANGED <<streams, stream_ref>>
  /\ UNCHANGED <<fixed, audio_q, worker_thread, workers,
                 nCalls, now>>

\* 75: self._stream.start() starts the stream or raises; a stream that was
\* closed in the meantime cannot be started
StartStream ==
  /\ caller = "start_75"
  /\ \E ok \in BOOLEAN :
       IF ok /\ streams[stream_ref] = "open"
         THEN /\ streams' = [streams EXCEPT ![stream_ref] = "active"]
              /\ caller' = "start_81"
              /\ UNCHANGED <<running, signals>>
         ELSE /\ StartFailed
              /\ UNCHANGED streams
  /\ UNCHANGED <<fixed, audio_q, stream_ref, worker_thread,
                 workers, nCalls, now>>

\* 81-83, with the locals of the new thread (97-99)
StartThread ==
  /\ caller = "start_81"
  /\ worker_thread' = nCalls
  /\ workers' = [workers EXCEPT ![nCalls] = [NoWorker EXCEPT !.pc = "while"]]
  /\ signals' = signals \cup {Status("Listening", nCalls)}
  /\ caller' = "idle"
  /\ UNCHANGED <<fixed, running, audio_q, stream_ref, streams,
                 nCalls, now>>

(* ---- stop() (85-94) ------------------------------------------------------- *)
\* 86
StopBegin ==
  /\ caller = "idle" /\ nCalls < CallLimit
  /\ nCalls' = nCalls + 1
  /\ running' = FALSE
  /\ caller' = "stop_87"
  /\ UNCHANGED <<fixed, audio_q, stream_ref, streams,
                 worker_thread, workers, signals, now>>

\* 87-93: on a stream that is already closed, stop() of the library either
\* returns or raises; raising skips lines 90-91
StopStream ==
  /\ caller = "stop_87"
  /\ IF stream_ref = 0
       THEN UNCHANGED <<stream_ref, streams>>
       ELSE IF streams[stream_ref] = "closed"
         THEN /\ \E raises \in BOOLEAN :
                   stream_ref' = IF raises THEN stream_ref ELSE 0
              /\ UNCHANGED streams
         ELSE /\ streams' = [streams EXCEPT ![stream_ref] = "closed"]
              /\ stream_ref' = 0
  /\ caller' = "stop_94"
  /\ UNCHANGED <<fixed, running, audio_q, worker_thread,
                 workers, nCalls, signals, now>>

\* 94
StopEmit ==
  /\ caller = "stop_94"
  /\ signals' = signals \cup {Status("Stopped", nCalls)}
  /\ caller' = "idle"
  /\ UNCHANGED <<fixed, running, audio_q, stream_ref, streams,
                 worker_thread, workers, nCalls, now>>

(* ---- _audio_callback (56-62) ---------------------------------------------- *)
\* Queue.put_nowait raises queue.Full when maxsize > 0 and that many items wait
Full(q) == maxsize > 0 /\ Len(q) >= maxsize

\* 59-62: the block is enqueued, or dropped when put_nowait raises queue.Full.
\* The block carries the stream that captured it.
AudioCallback(c) ==
  /\ streams[c] = "active" /\ Len(audio_q) < QueueLimit
  /\ audio_q' = IF Full(audio_q) THEN audio_q ELSE Append(audio_q, c)
  /\ UNCHANGED <<fixed, running, stream_ref, streams,
                 worker_thread, workers, caller, nCalls, signals, now>>

(* ---- the clock ------------------------------------------------------------- *)
Tick ==
  /\ now < TimeLimit
  /\ now' = now + 1
  /\ UNCHANGED <<fixed, running, audio_q, stream_ref, streams,
                 worker_thread, workers, caller, nCalls, signals>>

(* ---- _process_loop (96-161), one thread per successful start() ------------- *)
SetWorker(c, w) ==
  /\ workers' = [workers EXCEPT ![c] = w]
  /\ UNCHANGED <<fixed, worker_thread, caller, nCalls, now>>

\* lines 134-135 with `translated` handed over as it is, without `or ""`
EmitResult_no_or(c, w) ==
  IF Falsy(w.original) THEN signals
  ELSE signals \cup {NewResult(w.original, model_lang, w.translated, c, w)}

\* line 135 without the test of line 134
EmitResult_always(c, w) ==
  signals \cup
    {NewResult(w.original, model_lang,
               IF Falsy(w.translated) THEN "" ELSE w.translated, c, w)}

\* 134-135
EmitResult(c, w) ==
  IF Falsy(w.original) THEN signals
  ELSE signals \cup
         {NewResult(w.original, model_lang,
                    IF Falsy(w.translated) THEN "" ELSE w.translated, c, w)}

\* the handler of 137-139 leaving the loop instead of going on
AttemptFailed_exits(c, w) ==
  /\ signals' = signals \cup {Error("Transcribe error", c, w.attempts)}
  /\ SetWorker(c, [w EXCEPT !.pc = "finally", !.last_end = now])

\* 137-139: the handler of one attempt; 141-150 change nothing of the model
AttemptFailed(c, w) ==
  /\ signals' = signals \cup {Error("Transcribe error", c, w.attempts)}
  /\ SetWorker(c, [w EXCEPT !.pc = "while", !.last_end = now])

\* 102
WorkerWhile(c) ==
  /\ workers[c].pc = "while"
  /\ SetWorker(c, [workers[c] EXCEPT
                     !.pc = IF running THEN "drain" ELSE "finally"])
  /\ UNCHANGED <<running, audio_q, stream_ref, streams, signals>>

\* 104-111: one turn of the inner loop that finds a block
WorkerDrain(c) ==
  /\ workers[c].pc = "drain"
  /\ audio_q # <<>>
  /\ audio_q' = Tail(audio_q)
  /\ SetWorker(c, [workers[c] EXCEPT
       !.buffer = AppendTrim(@, block_f(Head(audio_q)), max_samples)])
  /\ UNCHANGED <<running, stream_ref, streams, signals>>

\* 152-153: an exception raised in the loop outside the attempt's own try
WorkerFatal(c) ==
  /\ workers[c].pc = "drain"
  /\ signals' = signals \cup {Error("str(e)", c, 0)}
  /\ SetWorker(c, [workers[c] EXCEPT !.pc = "finally"])
  /\ UNCHANGED <<running, audio_q, stream_ref, streams>>

\* the attempts begun so far by the workers 1..n
RECURSIVE AttemptsUpTo(_)
AttemptsUpTo(n) ==
  IF n = 0 THEN 0 ELSE workers[n].attempts + AttemptsUpTo(n - 1)

\* A restart run follows its workers up to RestartAttempts attempts begun; in
\* the other runs the clock alone limits the attempts.
AttemptBudgetLeft ==
  scenario = "restart" => AttemptsUpTo(Largest(Calls)) < RestartAttempts

\* 112-118: queue.Empty ends the inner loop; then the clock is read and either
\* the call of 121 or 129 goes out or the iteration ends in the sleep of 147-150
WorkerCheck(c) ==
  /\ workers[c].pc = "drain"
  /\ audio_q = <<>>
  /\ ShouldTranscribe(now, workers[c].last_transcribe, workers[c].buffer)
       => AttemptBudgetLeft
  /\ LET w == workers[c]
     IN IF ShouldTranscribe(now, w.last_transcribe, w.buffer)
          THEN SetWorker(c, [w EXCEPT
                 !.pc = "transcribe",
                 !.audio_for_model = w.buffer,
                 !.last_transcribe = now,
                 !.attempts = @ + 1,
                 !.model_calls = <<[language |-> model_lang,
                                    task |-> "transcribe",
                                    audio |-> w.buffer]>>])
          ELSE SetWorker(c, [w EXCEPT !.pc = "while"])
  /\ UNCHANGED <<running, audio_q, stream_ref, streams, signals>>

\* line 125 handed the buffer brought up to date from the queue q instead of
\* the snapshot
DirectAudio_live(w, q) ==
  IF q = <<>> THEN w.buffer
  ELSE AppendTrim(w.buffer, block_f(Head(q)), max_samples)

\* line 125: the array handed to the second model call; the queue q has no part
DirectAudio(w, q) == w.audio_for_model

\* 121-124 or 129-135: the verbatim call returns or raises, then translate()
WorkerTranscribe(c) ==
  /\ workers[c].pc = "transcribe"
  /\ \E res \in RawTexts \cup {"throws"}, backend \in Backend :
       LET w == workers[c]
           original == Strip(OrEmpty(res))
           t == translate(google, original, model_lang, backend)
           w1 == [w EXCEPT !.original = original, !.translated = t.ret,
                           !.svc = t.ret, !.t_at = w.attempts]
       IN IF res = "throws" \/ t.raised
            THEN AttemptFailed(c, IF res = "throws" THEN w
                                  ELSE [w EXCEPT !.original = original])
            ELSE IF NeedsDirect(model_lang, w1.translated)
              THEN /\ SetWorker(c, [w1 EXCEPT
                        !.pc = "transcribe2",
                        !.model_calls = Append(@,
                           [language |-> "hu", task |-> "translate",
                            audio |-> DirectAudio(w1, audio_q)])])
                   /\ UNCHANGED signals
              ELSE LET w2 == [w1 EXCEPT !.pc = "while", !.last_end = now]
                   IN /\ signals' = EmitResult(c, w2)
                      /\ SetWorker(c, w2)
  /\ UNCHANGED <<running, audio_q, stream_ref, streams>>

\* 125-127, 134-135: the direct-translate call returns or raises
WorkerTranscribe2(c) ==
  /\ workers[c].pc = "transcribe2"
  /\ \E res \in RawDirect \cup {"throws"} :
       LET w == workers[c]
       IN IF res = "throws"
            THEN AttemptFailed(c, w)
            ELSE LET w2 == [w EXCEPT !.translated = Strip(OrEmpty(res)),
                                     !.t_at = w.attempts,
                                     !.pc = "while", !.last_end = now]
                 IN /\ signals' = EmitResult(c, w2)
                    /\ SetWorker(c, w2)
  /\ UNCHANGED <<running, audio_q, stream_ref, streams>>

\* 155-160: whatever stream self._stream names now is stopped and closed
WorkerFinally(c) ==
  /\ workers[c].pc = "finally"
  /\ streams' = IF stream_ref # 0
                  THEN [streams EXCEPT ![stream_ref] = "closed"]
                  ELSE streams
  /\ SetWorker(c, [workers[c] EXCEPT !.pc = "finally_161"])
  /\ UNCHANGED <<running, audio_q, stream_ref, signals>>

\* 161
WorkerExit(c) ==
  /\ workers[c].pc = "finally_161"
  /\ running' = FALSE
  /\ SetWorker(c, [workers[c] EXCEPT !.pc = "exited"])
  /\ UNCHANGED <<audio_q, stream_ref, streams, signals>>

(* ---- the pipeline ----------------------------------------------------------- *)
Next ==
  \/ StartBegin
  \/ StartConstruct
  \/ StartStream
  \/ StartThread
  \/ StopBegin
  \/ StopStream
  \/ StopEmit
  \/ \E c \in Calls : AudioCallback(c)
  \/ \E c \in Calls : WorkerWhile(c)
  \/ \E c \in Calls : WorkerDrain(c)
  \/ \E c \in Calls : WorkerFatal(c)
  \/ \E c \in Calls : WorkerCheck(c)
  \/ \E c \in Calls : WorkerTranscribe(c)
  \/ \E c \in Calls : WorkerTranscribe2(c)
  \/ \E c \in Calls : WorkerFinally(c)
  \/ \E c \in Calls : WorkerExit(c)
  \/ Tick

Spec == Init /\ [][Next]_vars

\* one session observed over a longer time
InitLoop ==
  /\ scenario = "loop"
  /\ InitPipeline
  /\ tr = NoCall(LinguaWrapper(FALSE, FALSE, FALSE, FALSE))
  /\ rb = NoBuffer(max_samples)

SpecLoop == InitLoop /\ [][Next]_vars

\* one session whose producer runs ahead of the worker
InitBacklog ==
  /\ scenario = "backlog"
  /\ InitPipeline
  /\ tr = NoCall(LinguaWrapper(FALSE, FALSE, FALSE, FALSE))
  /\ rb = NoBuffer(max_samples)

SpecBacklog == InitBacklog /\ [][Next]_vars

\* sessions that follow each other closely: more calls, fewer attempts
InitRestart ==
  /\ scenario = "restart"
  /\ InitPipeline
  /\ tr = NoCall(LinguaWrapper(FALSE, FALSE, FALSE, FALSE))
  /\ rb = NoBuffer(max_samples)

SpecRestart == InitRestart /\ [][Next]_vars

(* ---- the translators on their own ------------------------------------------- *)
Texts == {None, "", "szia"}
Sources == {None, "en", "hu"}

InitTr ==
  /\ scenario = "translate"
  /\ InitPipeline
  /\ \E a, e2h, h2e, g \in BOOLEAN : tr = NoCall(LinguaWrapper(a, e2h, h2e, g))
  /\ rb = NoBuffer(max_samples)

TrUnchanged ==
  UNCHANGED <<scenario, model_lang, google, running, audio_q, stream_ref,
              streams, worker_thread, workers, caller, nCalls, signals, now,
              rb>>

\* self.translator.translate(text, src) of modules/translator.py
TranslateCall ==
  /\ tr.n < MaxTrCalls
  /\ \E text \in Texts, src \in Sources, backend \in Backend :
       tr' = [tr EXCEPT !.impl = "modules", !.text = text, !.src = src,
                        !.primary = None, !.secondary = backend,
                        !.res = translate(google, text, src, backend),
                        !.n = @ + 1]
  /\ TrUnchanged

\* translate(text, src) of lingua.py
LinguaTranslateCall ==
  /\ tr.n < MaxTrCalls
  /\ \E text \in Texts, src \in Sources, primary, secondary \in Backend :
       tr' = [tr EXCEPT !.impl = "lingua", !.text = text, !.src = src,
                        !.primary = primary, !.secondary = secondary,
                        !.res = lingua_translate(tr.w, text, src, primary,
                                                 secondary),
                        !.n = @ + 1]
  /\ TrUnchanged

NextTr == TranslateCall \/ LinguaTranslateCall

SpecTr == InitTr /\ [][NextTr]_vars

(* ---- the rolling buffer and the attempt condition on their own ---------------- *)
\* The samples of the stream are numbered in the order of their capture: the
\* block that arrives after n samples holds the samples n+1 .. n+k.
Block(n, k) == [i \in 1..k |-> n + i]

InitBuffer ==
  /\ scenario = "buffer"
  /\ InitPipeline
  /\ tr = NoCall(LinguaWrapper(FALSE, FALSE, FALSE, FALSE))
  /\ \E cap \in 0..MaxCap : rb = NoBuffer(cap)

BufferUnchanged ==
  UNCHANGED <<scenario, model_lang, google, running, audio_q, stream_ref,
              streams, worker_thread, workers, caller, nCalls, signals, tr>>

\* 106-111: one block is taken from the queue, appended and the buffer trimmed
BufferAppend ==
  /\ \E k \in 1..MaxBlock :
       /\ rb.appended + k <= MaxAppended
       /\ rb' = [rb EXCEPT
                   !.buffer = AppendTrim(@, Block(rb.appended, k), rb.max_samples),
                   !.appended = @ + k]
  /\ UNCHANGED now
  /\ BufferUnchanged

\* 115-118: the clock is read and the condition of line 116 decides
BufferCheck ==
  /\ rb.iterations < MaxIterations
  /\ LET seen == [rb EXCEPT !.iterations = @ + 1,
                            !.elapsed = now - rb.last_transcribe,
                            !.held = Len(rb.buffer)]
     IN rb' = IF ShouldTranscribe(now, rb.last_transcribe, rb.buffer)
                THEN [seen EXCEPT !.audio_for_model = rb.buffer,
                                  !.last_transcribe = now,
                                  !.attempts = @ + 1]
                ELSE seen
  /\ UNCHANGED now
  /\ BufferUnchanged

\* time.monotonic() moves on
BufferTick ==
  /\ now < TimeLimit
  /\ now' = now + 1
  /\ UNCHANGED rb
  /\ BufferUnchanged

NextBuffer == BufferAppend \/ BufferCheck \/ BufferTick

SpecBuffer == InitBuffer /\ [][NextBuffer]_vars

(* ==== properties ============================================================== *)
\* a model.transcribe call of worker c is in flight
InFlight(c) == workers[c].pc \in {"transcribe", "transcribe2"}
Started == {c \in Calls : workers[c].pc # "none"}
Results == {e \in signals : e.sig = "new_result"}

\* C1: for serialized start() and stop() calls, at most one model.transcribe
\* call is in flight at any time.
C1_AtMostOneInFlight == Cardinality({c \in Calls : InFlight(c)}) <= 1

\* worker c begins an attempt in this step
Begins(c) == workers[c]'.attempts = workers[c].attempts + 1

Range(f) == {f[i] : i \in DOMAIN f}
StartError(c) == Error("Audio input stream error", c, 0)
\* the start() call in progress fails in this step
FailsNow == caller \in {"start_69", "start_75"} /\ caller' = "idle"
\* call c was a start() that failed
FailedStart(c) == StartError(c) \in signals
\* the audio blocks the pipeline holds anywhere
BlocksHeld ==
  Range(audio_q) \cup
  UNION {Range(workers[d].buffer) \cup Range(workers[d].audio_for_model)
           : d \in Calls}

\* C3: when start() fails to open or to start the input stream, an error is
\* emitted and the pipeline is left not running; the call starts no worker
\* thread, emits no "Listening" status, its stream never delivers a block, and
\* the stop() that follows runs to its "Stopped" status and emits no result.
C3_FailedStart ==
  /\ [][FailsNow => (StartError(nCalls) \in signals' /\ ~running')]_vars
  /\ [](\A c \in Calls : FailedStart(c) =>
          /\ workers[c].pc = "none"
          /\ worker_thread # c
          /\ Status("Listening", c) \notin signals
          /\ streams[c] # "active"
          /\ c \notin BlocksHeld
          /\ (nCalls = c => ~running)
          /\ (nCalls = c + 1 /\ caller \in {"stop_87", "stop_94"} => ~running)
          /\ \A e \in signals :
               e.by \in {c, c + 1} /\ Status("Stopped", c + 1) \in signals
                 => e \in {StartError(c), Status("Stopped", c + 1)})

\* a start() that failed in self._stream.start(), and the stop() after it done
C3_Witness ==
  \E c \in Calls :
    /\ FailedStart(c) /\ streams[c] # "none"
    /\ Status("Stopped", c + 1) \in signals
    /\ caller = "idle"

\* C4: after a start() that failed, the stream that call acquired is neither
\* open nor held by the pipeline.
C4_NothingLeftOpen ==
  \A c \in Calls :
    (FailedStart(c) /\ nCalls = c)
      => streams[c] \notin {"open", "active"} /\ stream_ref # c

\* C5: no result notification follows the "Stopped" status of its session: a
\* worker emits no result once a stop() made after its start() has reported
\* "Stopped".
C5_NoResultAfterStopped ==
  [][\A e \in signals' \ signals :
       e.sig = "new_result"
         => ~ \E d \in Calls : d > e.by /\ Status("Stopped", d) \in signals]_vars

\* C6: a session never ingests or transcribes an audio block captured by the
\* stream of an earlier session.
C6_NoStaleAudio ==
  \A c \in Started :
    \A b \in Range(workers[c].buffer) \cup Range(workers[c].audio_for_model) :
      b >= c

(* ---- one attempt ------------------------------------------------------------ *)
\* the verbatim call of worker c's current attempt has returned and
\* translate() has been called on its text
Translated(w) == w.attempts >= 1 /\ w.t_at = w.attempts /\ w.pc # "transcribe"
Verbatim(lang, audio) ==
  [language |-> lang, task |-> "transcribe", audio |-> audio]
Direct(audio) == [language |-> "hu", task |-> "translate", audio |-> audio]
\* translated or ""
Shown(x) == IF Falsy(x) THEN "" ELSE x

\* C9: with language hint "hu", whenever translate() returns nothing for an
\* attempt, a direct-translate call is made on the snapshot of that attempt
\* before anything is emitted, and the translated text of every emitted event
\* was assigned in the attempt that emitted it, by translate() or by the
\* direct-translate call.
C9_HuFallback ==
  model_lang = "hu" =>
    /\ \A c \in Started :
         LET w == workers[c]
         IN (Translated(w) /\ Falsy(w.svc))
              => w.model_calls = <<Verbatim("hu", w.audio_for_model),
                                   Direct(w.audio_for_model)>>
    /\ \A e \in Results :
         /\ e.at.t_at = e.at.attempts
         /\ e.translated = Shown(e.at.translated)
         /\ IF Falsy(e.at.svc)
              THEN e.at.model_calls = <<Verbatim("hu", e.at.audio_for_model),
                                        Direct(e.at.audio_for_model)>>
              ELSE /\ e.translated = e.at.svc
                   /\ e.at.model_calls = <<Verbatim("hu", e.at.audio_for_model)>>

\* a later attempt emitted the text of its own direct-translate call
C9_Witness ==
  /\ model_lang = "hu"
  /\ \E e \in Results :
       e.at.attempts >= 2 /\ Falsy(e.at.svc) /\ e.translated = "hello"

\* C10: with language hint "en", every attempt makes exactly one model call,
\* the verbatim one, and never a direct-translate call; when translate()
\* returns nothing the event is emitted with an empty translated text.
C10_EnSingleCall ==
  model_lang = "en" =>
    /\ \A c \in Started :
         LET w == workers[c]
         IN /\ w.pc # "transcribe2"
            /\ w.attempts >= 1
                 => w.model_calls = <<Verbatim("en", w.audio_for_model)>>
            /\ (Translated(w) /\ ~Falsy(w.original))
                 => \E e \in Results :
                      /\ e.by = c /\ e.at.attempts = w.attempts
                      /\ e.original = w.original
                      /\ e.translated = Shown(w.svc)
    /\ \A e \in Results :
         /\ e.src = "en"
         /\ e.at.model_calls = <<Verbatim("en", e.at.audio_for_model)>>
         /\ e.translated = Shown(e.at.svc)

\* an event emitted with an empty translated text after translate() returned
\* nothing
C10_Witness ==
  /\ model_lang = "en"
  /\ \E e \in Results : Falsy(e.at.svc) /\ e.translated = "" /\ e.original = "szia"

(* ---- translate() --------------------------------------------------------------- *)
\* a translate() call with a text and a source language was made
CallMade == tr.n > 0 /\ ~Falsy(tr.text) /\ tr.src # None
\* the online translator can be imported
SecondaryInstalled ==
  IF tr.impl = "modules" THEN google ELSE tr.w.googletrans
\* the offline translator was not set up when the wrapper was constructed
PrimaryNotSetUp == tr.impl = "modules" \/ ~tr.w.argos
\* the offline translator has no translation for the direction of the call
PairMissing ==
  /\ tr.impl = "lingua" /\ tr.w.argos
  /\ IF tr.src = "en" THEN ~tr.w.en_to_hu ELSE ~tr.w.hu_to_en
PrimaryThrew == "argos" \in tr.res.invoked /\ tr.primary = "throws"
SecondaryThrew == "google" \in tr.res.invoked /\ tr.secondary = "throws"
NoTranslator ==
  IF tr.impl = "modules" THEN ~google ELSE ~tr.w.argos /\ ~tr.w.google

C8_NeverRaises ==
  tr.n > 0 =>
    /\ ~tr.res.raised
    /\ (Falsy(tr.text) => tr.res.ret = None /\ tr.res.invoked = {})
    /\ (NoTranslator => tr.res.ret = None /\ tr.res.invoked = {})
    /\ (PrimaryThrew \/ SecondaryThrew => tr.res.ret = None)

\* a call on which the invoked translator threw
C8_Witness ==
  /\ tr.n > 0 /\ SecondaryThrew /\ tr.res.ret = None /\ ~tr.res.raised

(* ---- the outcome of one attempt ------------------------------------------------ *)
\* worker c ends an attempt in this step
AttemptEnds(c) == InFlight(c) /\ workers[c]'.pc \notin {"transcribe", "transcribe2"}
\* the verbatim call of the attempt that ends in this step returned this text
VerbatimText(c) == workers[c]'.original
VerbatimReturned(c) ==
  workers[c]'.attempts >= 1 /\ workers[c]'.t_at = workers[c]'.attempts
\* what the step adds to the notifications
Emitted == signals' \ signals
AttemptError(c) == Error("Transcribe error", c, workers[c].attempts)
\* the result event an attempt of worker c owes to its texts
ResultOf(c) ==
  {e \in Emitted :
     /\ e.sig = "new_result" /\ e.by = c
     /\ e.original = VerbatimText(c) /\ e.src = model_lang
     /\ e.translated = Shown(workers[c]'.translated)}
\* no attempt has two result events
OneResultEach ==
  \A e1, e2 \in Results :
    (e1.by = e2.by /\ e1.at.attempts = e2.at.attempts) => e1 = e2

\* C11 as claimed: every attempt whose verbatim text is non-empty emits exactly
\* one result event with that text, the language hint and the translated text
\* or "", whatever the translation and the fallback call do.
C11_ResultForEveryText ==
  [][\A c \in Calls :
       (AttemptEnds(c) /\ VerbatimReturned(c) /\ ~Falsy(VerbatimText(c)))
         => (ResultOf(c) # {} /\ Emitted = ResultOf(c))]_vars

\* C11 as amended: every attempt whose verbatim text is non-empty and whose
\* model calls all return emits exactly one result event with that text, the
\* language hint and the translated text or ""; when the direct-translate call
\* of a "hu" attempt throws, the attempt emits an error and no result.
C11_ResultUnlessThrown ==
  /\ [][\A c \in Calls :
          (AttemptEnds(c) /\ VerbatimReturned(c) /\ ~Falsy(VerbatimText(c)))
            => IF AttemptError(c) \in Emitted
                 THEN /\ Emitted = {AttemptError(c)}
                      /\ model_lang = "hu" /\ workers[c].pc = "transcribe2"
                 ELSE /\ Cardinality(ResultOf(c)) = 1
                      /\ Emitted = ResultOf(c)]_vars
  /\ []OneResultEach

\* a "hu" attempt with a text has emitted its event with the text of the
\* direct-translate call, and another one with "" after that call returned
\* nothing
C11_Witness ==
  /\ model_lang = "hu"
  /\ \E e1, e2 \in Results :
       /\ e1.original = "szia" /\ e1.translated = "hello" /\ Falsy(e1.at.svc)
       /\ e2.original = "szia" /\ e2.translated = ""
\* the attempt that ends in this step heard silence: its verbatim text is empty
SilentEnds(c) ==
  AttemptEnds(c) /\ VerbatimReturned(c) /\ Falsy(VerbatimText(c))
\* line 118: an attempt that begins sets the marker to the clock just read
TimerReset ==
  \A c \in Calls : Begins(c) => workers[c]'.last_transcribe = now

\* C12 as claimed: an attempt whose verbatim text is empty emits no result and
\* no error, and it has reset the interval timer.
C12_SilentEmitsNothing ==
  [][/\ TimerReset
     /\ \A c \in Calls : SilentEnds(c) => Emitted = {}]_vars

\* C12 as amended: an attempt whose verbatim text is empty emits no result and
\* has reset the interval timer; it emits no error either, unless the language
\* hint is "hu" and the direct-translate call, which is made on an empty text
\* too, throws.
C12_SilentNoResult ==
  [][/\ TimerReset
     /\ \A c \in Calls :
          SilentEnds(c)
            => \/ Emitted = {}
               \/ /\ Emitted = {AttemptError(c)}
                  /\ model_lang = "hu" /\ workers[c].pc = "transcribe2"]_vars

\* two silent attempts in a row: nothing emitted, the timer reset by each
C12_Witness ==
  \E c \in Started :
    LET w == workers[c]
    IN /\ w.attempts = 2 /\ w.pc = "while" /\ w.t_at = 2 /\ Falsy(w.original)
       /\ w.last_transcribe = 2
       /\ \A e \in signals : e.by = c => e.sig = "status"
\* the attempt of worker c in flight fails in this step
AttemptFails(c) == InFlight(c) /\ AttemptError(c) \in Emitted
\* attempt k of worker c failed
Failed(c, k) == k >= 1 /\ Error("Transcribe error", c, k) \in signals

\* C13: when a model call of an attempt throws, an error is emitted and nothing
\* else, the worker goes back to the top of its loop with the running flag and
\* every stream as they were, and no result event is ever emitted for that
\* attempt.
C13_FailureIsolated ==
  /\ [][\A c \in Calls :
          AttemptFails(c)
            => /\ Emitted = {AttemptError(c)}
               /\ workers[c]'.pc = "while"
               /\ workers[c]'.attempts = workers[c].attempts
               /\ running' = running /\ streams' = streams
               /\ stream_ref' = stream_ref]_vars
  /\ [](\A e \in Results : ~Failed(e.by, e.at.attempts))

\* after a failed first attempt the same worker, still listening, has run a
\* second attempt and emitted its result
C13_Witness ==
  \E c \in Started :
    /\ Failed(c, 1) /\ running /\ streams[c] = "active"
    /\ \E e \in Results : e.by = c /\ e.at.attempts = 2

(* ---- the rolling buffer --------------------------------------------------------- *)
Min(a, b) == IF a < b THEN a ELSE b
\* the last m of the first n samples of the stream, in order
Newest(n, m) == [i \in 1..m |-> n - m + i]

\* C14: for every capacity, 0 and capacities below one block included, after
\* every append the buffer holds the last min(appended, capacity) samples of
\* the stream in order, so its length never exceeds the capacity.
C14_LastSamples ==
  /\ Len(rb.buffer) <= rb.max_samples
  /\ rb.buffer = Newest(rb.appended, Min(rb.appended, rb.max_samples))

(* ---- the attempt condition -------------------------------------------------------- *)
\* the step is one iteration of the loop: line 116 is evaluated
Iterates == rb'.iterations = rb.iterations + 1
\* the step begins an attempt: 117-118
Snapshots ==
  /\ rb'.attempts = rb.attempts + 1
  /\ rb'.audio_for_model = rb.buffer
  /\ rb'.last_transcribe = now
\* the step begins none
NoAttempt ==
  /\ rb'.attempts = rb.attempts
  /\ rb'.audio_for_model = rb.audio_for_model
  /\ rb'.last_transcribe = rb.last_transcribe
\* the buffer holds at least half a second of audio
HalfSecond(buffer) == 2 * Len(buffer) >= SAMPLE_RATE

\* C15: an iteration in which the buffer holds fewer samples than half a second
\* begins no attempt, however long ago the last one was.
C15_NoAttemptBelowHalfSecond ==
  [][(Iterates /\ ~HalfSecond(rb.buffer)) => NoAttempt]_vars

\* an iteration found a buffer that was neither empty nor half a second long
\* at least transcribe_interval after the last attempt, and no attempt began
C15_Witness ==
  /\ rb.iterations >= 1 /\ rb.attempts = 0
  /\ rb.elapsed >= transcribe_interval
  /\ rb.held >= 1 /\ 2 * rb.held < SAMPLE_RATE

\* C16: every iteration that finds at least transcribe_interval elapsed since
\* the last attempt and at least half a second in a buffer within its
\* capacity, exactly half a second included, takes a snapshot, resets the timer
\* and begins one attempt.
C16_AttemptAtHalfSecond ==
  [][(/\ Iterates
      /\ now - rb.last_transcribe >= transcribe_interval
      /\ Len(rb.buffer) <= rb.max_samples
      /\ HalfSecond(rb.buffer)) => Snapshots]_vars

(* ---- the queue --------------------------------------------------------------------- *)
\* C17: the queue between the callback and the worker has a capacity at which
\* arriving blocks are dropped: even while a worker is busy in a model call,
\* the blocks waiting stay below the QueueLimit blocks that the producer
\* delivers in this run.
C17_QueueBounded ==
  (\E c \in Calls : InFlight(c)) => Len(audio_q) < QueueLimit

(* ---- stop() -------------------------------------------------------------------------- *)
\* the stop() call in progress returns in this step
StopReturns == caller = "stop_94" /\ caller' = "idle"
\* the streams that hold the device
OpenStreams == {c \in Calls : streams[c] \in {"open", "active"}}
\* a stream that was closed stays closed
ClosedForGood ==
  \A c \in Calls : streams[c] = "closed" => streams'[c] = "closed"

\* C18: stop() is safe in every state: whenever it returns, after no start(),
\* after a failed start(), after a worker closed the stream or after another
\* stop(), the pipeline is not running and no stream is open, and a stream
\* that was closed before is not touched again.
C18_StopLeavesNothingOpen ==
  [][/\ ClosedForGood
     /\ StopReturns => (~running' /\ OpenStreams' = {})]_vars
\* a stop() call made after the start() call c has executed line 86
StopCalledAfter(c) ==
  \/ caller \in {"stop_87", "stop_94"} /\ nCalls > c
  \/ \E d \in Calls : d > c /\ Status("Stopped", d) \in signals
\* worker c passes the test of line 102 and begins another iteration
NextIteration(c) == workers[c].pc = "while" /\ workers[c]'.pc = "drain"

\* C19: once stop() has been called, the worker that was running exits after
\* at most its current iteration: it begins no further iteration, whatever
\* start() calls follow.
C19_ExitsAfterStop ==
  [][\A c \in Calls : StopCalledAfter(c) => ~NextIteration(c)]_vars

(* ---- a fatal error in the loop ------------------------------------------------------- *)
FatalError(c) == Error("str(e)", c, 0)
\* an exception escapes the loop of worker c in this step
FatalNow(c) == workers[c].pc = "drain" /\ workers[c]'.pc = "finally"
\* the thread of worker c ends in this step
ExitsNow(c) == workers[c].pc = "finally_161" /\ workers[c]'.pc = "exited"
\* a start() call begins in this step with the pipeline not running
StartWhenNotRunning ==
  caller = "idle" /\ nCalls' = nCalls + 1 /\ caller' # "stop_87" /\ ~running
\* line 69 returns a stream in this step
Constructs == caller = "start_69" /\ caller' = "start_75"

\* C20: when an exception escapes the loop of a worker, an error is emitted;
\* when that worker's thread ends, its stream is closed and the pipeline is not
\* running; a start() made when the pipeline is not running is accepted and
\* binds a stream of its own, the closed one staying closed.
C20_FatalStops ==
  [][/\ \A c \in Calls :
          /\ FatalNow(c) => Emitted = {FatalError(c)}
          /\ (ExitsNow(c) /\ FatalError(c) \in signals)
               => (~running' /\ streams'[c] = "closed")
     /\ StartWhenNotRunning => (running' /\ caller' = "start_69")
     /\ Constructs => (stream_ref' = nCalls /\ streams[nCalls] = "none"
                                            /\ streams'[nCalls] = "open")
     /\ ClosedForGood]_vars
(* ---- a session after another ----------------------------------------------------------- *)
\* start() call d came after a stop(), succeeded, and neither a stop() nor a
\* fatal error of its own worker has followed
ListeningAgain(d) ==
  /\ Status("Listening", d) \in signals
  /\ \E b \in Calls : b < d /\ Status("Stopped", b) \in signals
  /\ ~StopCalledAfter(d)
  /\ FatalError(d) \notin signals
\* worker c executes its finally block (154-161) in this step
CleansUp(c) ==
  /\ workers[c].pc \in {"finally", "finally_161"}
  /\ workers[c]'.pc # workers[c].pc

\* C21: the exit cleanup of the worker of an earlier session leaves a session
\* that is listening again alone: it neither closes that session's stream nor
\* clears the running flag.
C21_OldCleanupSpares ==
  [][\A c, d \in Calls :
       (c < d /\ CleansUp(c) /\ ListeningAgain(d))
         => (streams'[d] = streams[d] /\ running' = running)]_vars
(* ---- start() while running ---------------------------------------------------------------- *)
\* a start() call is made in this step with the pipeline running
StartWhileRunning ==
  caller = "idle" /\ nCalls' = nCalls + 1 /\ caller' # "stop_87" /\ running
\* the call returns at once and nothing of the pipeline has changed
NothingChanged ==
  UNCHANGED <<running, audio_q, stream_ref, streams, worker_thread, workers,
              caller, signals>>

\* C22: a start() call made while the pipeline is running opens no stream,
\* creates no worker thread and emits nothing, and at any time at most one
\* stream of the pipeline is open.
C22_OneStream ==
  /\ [][StartWhileRunning => NothingChanged]_vars
  /\ [](Cardinality(OpenStreams) <= 1)
(* ---- the snapshot -------------------------------------------------------------------------- *)
\* the arrays the model calls of the worker with locals w were handed
AudioSeen(w) == {w.model_calls[i].audio : i \in DOMAIN w.model_calls}

\* C23: the snapshot of an attempt is the buffer as it was when the attempt
\* began; no step taken while the attempt is in flight, by the callback, the
\* caller or another worker, changes it; and every model call of the attempt,
\* the direct-translate call of a "hu" attempt included, is handed that
\* snapshot.
C23_SnapshotIndependent ==
  /\ [][\A c \in Calls :
          /\ Begins(c) => workers[c]'.audio_for_model = workers[c].buffer
          /\ InFlight(c)
               => workers[c]'.audio_for_model = workers[c].audio_for_model]_vars
  /\ [](\A c \in Started : AudioSeen(workers[c]) \subseteq
                              {workers[c].audio_for_model})
  /\ [](\A e \in Results : AudioSeen(e.at) = {e.at.audio_for_model})

\* a "hu" attempt has made both model calls on its snapshot while a block that
\* another stream captured after the snapshot waits in the queue
C23_Witness ==
  /\ model_lang = "hu"
  /\ \E c \in Started :
       LET w == workers[c]
       IN /\ w.pc = "transcribe2" /\ Len(w.model_calls) = 2
          /\ AudioSeen(w) = {w.audio_for_model}
          /\ \E b \in Range(audio_q) : b \notin Range(w.audio_for_model)
====
